---- MODULE Spec2Model ----
(***************************************************************************)
(* Model of the mailstorm backend: the template renderer                   *)
(* (replace_variables_in_message), the transmitter (send_single_email),    *)
(* the dispatch loop (send_emails_from_dataframe_enhanced) of              *)
(* backend/email_sender.py, and of backend/main.py the /send-emails and    *)
(* /preview-csv handlers, the activation endpoints (/activate,             *)
(* /check-activation, /logout) and the lifespan with /shutdown and /health *)
(*                                                                         *)
(* Text is a sequence of one-character strings.  A cell of the contact     *)
(* table is NaN, a string or an integer.                                   *)
(***************************************************************************)
EXTENDS Integers, Sequences, FiniteSets, TLC

\* ------------------------------------------------------------------ bounds
MaxRows == 3
MaxAccounts == 2
MaxRuns == 2
MaxServed == 4

\* ------------------------------------------------------------- cell values
NaN == [kind |-> "nan"]
StrCell(s) == [kind |-> "str", s |-> s]
IntCell(n) == [kind |-> "int", n |-> n]

BoundedSeq(S, n) == UNION {[1..k -> S] : k \in 0..n}

\* ------------------------------------------------------ python primitives
Digit(d) == CASE d = 0 -> "0" [] d = 1 -> "1" [] d = 2 -> "2" [] d = 3 -> "3"
              [] d = 4 -> "4" [] d = 5 -> "5" [] d = 6 -> "6" [] d = 7 -> "7"
              [] d = 8 -> "8" [] d = 9 -> "9"

RECURSIVE Decimal(_)
Decimal(n) == IF n < 10 THEN <<Digit(n)>> ELSE Decimal(n \div 10) \o <<Digit(n % 10)>>

\* str(value): NaN prints as "nan", an integer in decimal, a string as itself
str(v) == CASE v.kind = "nan" -> <<"n", "a", "n">>
            [] v.kind = "int" -> IF v.n < 0 THEN <<"-">> \o Decimal(0 - v.n) ELSE Decimal(v.n)
            [] v.kind = "str" -> v.s

\* pd.notna(value)
notna(v) == v.kind # "nan"

RECURSIVE lstrip(_)
lstrip(s) == IF s # <<>> /\ Head(s) = " " THEN lstrip(Tail(s)) ELSE s

RECURSIVE rstrip(_)
rstrip(s) == IF s # <<>> /\ s[Len(s)] = " " THEN rstrip(SubSeq(s, 1, Len(s) - 1)) ELSE s

\* s.strip()
strip(s) == rstrip(lstrip(s))

\* c in s, for a one-character c
contains(s, c) == \E i \in 1..Len(s) : s[i] = c

\* s.split(c)[-1]: the text after the last c, the whole of s when c is absent
split_last(s, c) ==
    IF ~contains(s, c) THEN s
    ELSE LET i == CHOOSE j \in 1..Len(s) : s[j] = c /\ \A k \in (j+1)..Len(s) : s[k] # c
         IN  SubSeq(s, i + 1, Len(s))

startswith(s, p) == Len(p) <= Len(s) /\ SubSeq(s, 1, Len(p)) = p

\* s.upper() and s.lower(), on the letters the identifiers and keys here use
upper(s) ==
    [i \in 1..Len(s) |->
        CASE s[i] = "a" -> "A" [] s[i] = "b" -> "B" [] s[i] = "k" -> "K" [] s[i] = "m" -> "M"
          [] OTHER -> s[i]]
lower(s) ==
    [i \in 1..Len(s) |->
        CASE s[i] = "A" -> "a" [] s[i] = "B" -> "b" [] s[i] = "K" -> "k" [] s[i] = "M" -> "m"
          [] OTHER -> s[i]]

\* a replace that stops after the first match, as s.replace(old, new, 1) would
str_replace_first(s, old, new) ==
    IF \E i \in 1..Len(s) : startswith(SubSeq(s, i, Len(s)), old)
    THEN LET i == CHOOSE j \in 1..Len(s) :
                      /\ startswith(SubSeq(s, j, Len(s)), old)
                      /\ \A k \in 1..(j-1) : ~startswith(SubSeq(s, k, Len(s)), old)
         IN  SubSeq(s, 1, i - 1) \o new \o SubSeq(s, i + Len(old), Len(s))
    ELSE s

\* s.replace(old, new) for a non-empty old: leftmost non-overlapping matches
RECURSIVE str_replace(_, _, _)
str_replace(s, old, new) ==
    IF s = <<>> THEN <<>>
    ELSE IF startswith(s, old)
         THEN new \o str_replace(SubSeq(s, Len(old) + 1, Len(s)), old, new)
         ELSE <<Head(s)>> \o str_replace(Tail(s), old, new)

\* f"{{{variable}}}"
placeholder(variable) == <<"{">> \o variable \o <<"}">>

\* ---------------------------------------------------------------- renderer
\* a substitution that leaves the placeholder when the record has no value
substitute_value_keep(row_data, variable) ==
    IF variable \in DOMAIN row_data /\ notna(row_data[variable])
    THEN str(row_data[variable])
    ELSE placeholder(variable)

\* the value substituted for one variable (email_sender.py 58-61)
substitute_value(row_data, variable) ==
    IF variable \in DOMAIN row_data /\ notna(row_data[variable])
    THEN str(row_data[variable])
    ELSE <<>>

\* one iteration of the for loop (email_sender.py 56-62)
render_step(text, row_data, variable) ==
    str_replace(text, placeholder(variable), substitute_value(row_data, variable))

\* a loop that takes the variables from the last to the first
RECURSIVE render_loop_reversed(_, _, _)
render_loop_reversed(text, row_data, variables) ==
    IF variables = <<>> THEN text
    ELSE render_step(render_loop_reversed(text, row_data, Tail(variables)), row_data,
                     Head(variables))

RECURSIVE render_loop(_, _, _)
render_loop(text, row_data, variables) ==
    IF variables = <<>> THEN text
    ELSE render_loop(render_step(text, row_data, Head(variables)), row_data, Tail(variables))

replace_variables_in_message(template, row_data, variables) ==
    render_loop(template, row_data, variables)

\* ------------------------------------------------------------ input values
EMAIL == <<"e", "m", "a", "i", "l">>
NAME == <<"n", "a", "m", "e">>
CODE == <<"c", "o", "d", "e">>

AddrA == <<"a", "@", "x", ".", "c">>
AddrBobPadded == <<" ", "b", "o", "b", "@", "x", ".", "c", " ">>
AddrBob == <<"b", "o", "b", "@", "x", ".", "c">>
AddrNoAt == <<"n", "o", "t", "-", "a", "n", "-", "e", "m", "a", "i", "l">>
AddrDotBefore == <<"a", ".", "b", "@", "x", ".", "c", "@", "d">>
AddrBlank == <<" ", " ">>

\* the email cells a contact row may hold
EmailCells ==
    { NaN, StrCell(AddrBlank), StrCell(AddrNoAt), StrCell(AddrDotBefore),
      StrCell(AddrA), StrCell(AddrBobPadded) }

\* rows of a table with an email column, and of a table without one
RowsWithEmail == { (EMAIL :> e) @@ (NAME :> StrCell(<<"A", "l">>)) : e \in EmailCells }
RowsNoEmail == { (NAME :> StrCell(<<"A", "l">>)) }

DataFrames == BoundedSeq(RowsWithEmail, MaxRows) \cup BoundedSeq(RowsNoEmail, MaxRows)

AccountA == [senderEmail |-> "A", senderPassword |-> "pa", smtpServer |-> "sa", smtpPort |-> 587]
AccountB == [senderEmail |-> "B", senderPassword |-> "pb", smtpServer |-> "sb", smtpPort |-> 465]
Accounts == {AccountA, AccountB}

SubjectTemplates == { <<"H", "i", " ", "{", "n", "a", "m", "e", "}">> }
MessageTemplates == { <<"{", "n", "a", "m", "e", "}", ":", "{", "c", "o", "d", "e", "}">> }
DispatchVariables == { <<NAME, CODE>> }

\* what the mail session of one send can end in
SessionOutcomes == {"ok", "auth", "connect", "other"}
\* the attachment file: no path or no such file, a file that cannot be read, a readable file
MediaStates == {"none", "unreadable", "readable"}
\* the html_content, bcc_mode and attachment combinations a dispatch is called with
DispatchOptions ==
    { [html_content |-> FALSE, bcc_mode |-> FALSE, media |-> "none"],
      [html_content |-> TRUE, bcc_mode |-> FALSE, media |-> "readable"],
      [html_content |-> FALSE, bcc_mode |-> TRUE, media |-> "unreadable"] }

\* ------------------------------------------------------------------- state
VARIABLES
    d_pc,              \* position of the dispatcher: idle, loop, send, sleep, done
    df,                \* the contact table of the running dispatch
    templates,         \* [subject, message, variables] of the running dispatch
    sender,            \* the account of the running dispatch
    options,           \* [html_content, bcc_mode, media] of the running dispatch
    idx,               \* 1-based position of the row being processed
    successful_sends,
    failed_sends,
    log,               \* what safe_print has written
    calls,             \* the messages handed to send_single_email, in order
    result,            \* the returned dictionary, or NoResult
    caller,            \* who called the dispatcher: none, direct, endpoint
    e_pc,              \* position of the /send-emails handler: idle, read_csv, dispatching, responded
    e_req,             \* the form fields and the uploaded table of the request
    e_vars,            \* variable_list of the request
    e_configs,         \* email_configs_list of the request
    e_df,              \* the contact table the request uploaded, once read
    temp_dir,          \* TRUE while the request's temporary directory exists
    response,          \* the response of /send-emails, or NoResponse
    r_pc,              \* position of a call of the renderer: idle, ready, done
    r_in,              \* its arguments [template, row_data, variables]
    r_out,             \* its return value
    runs,              \* how many times the dispatcher has been called
    prev_result,       \* what the call before the running one returned
    prev_calls,        \* the messages the call before the running one sent
    act_file,          \* the activation file: whether it exists, and its content
    a_op,              \* the activation endpoint that answered last
    a_in,              \* what that request carried, or what the machine reported
    a_out,             \* what it answered
    a_last,            \* the endpoint that answered before it, and how
    file_before,       \* the activation file when the last request arrived
    logged_out,        \* /logout has succeeded and no /activate has since
    l_pc,              \* position of the lifespan: serving, waiting, cleanup, exited
    shutdown_event,    \* the asyncio.Event that /shutdown sets
    elapsed,           \* seconds the lifespan has waited for the event
    wait_outcome,      \* how the wait ended: set, timeout or raised
    served,            \* the /health requests answered
    p_pc,              \* position of /preview-csv: idle, read_csv, responded
    p_req,             \* the upload of the /preview-csv request
    p_temp_dir,        \* whether its temporary directory exists
    p_response         \* what it answered

hvars == <<runs, prev_result, prev_calls>>

dvars == <<d_pc, df, templates, sender, options, idx, successful_sends, failed_sends,
           log, calls, result, caller, hvars>>

evars == <<e_pc, e_req, e_vars, e_configs, e_df, temp_dir, response>>

rvars == <<r_pc, r_in, r_out>>
avars == <<act_file, a_op, a_in, a_out, a_last, file_before, logged_out>>
lvars == <<l_pc, shutdown_event, elapsed, wait_outcome, served>>
pvars == <<p_pc, p_req, p_temp_dir, p_response>>
xvars == <<avars, lvars, pvars>>

vars == <<dvars, evars, rvars, xvars>>

NoResult == [successful_sends |-> -1, failed_sends |-> -1]
NoTemplates == [subject |-> <<>>, message |-> <<>>, variables |-> <<>>]
NoOptions == [html_content |-> FALSE, bcc_mode |-> FALSE, media |-> "none"]
NoAccount == [senderEmail |-> "", senderPassword |-> "", smtpServer |-> "", smtpPort |-> 0]

Event(ev, row, to) == [ev |-> ev, row |-> row, to |-> to]

\* ------------------------------------------------------------- transmitter
\* the message send_single_email builds (email_sender.py 81-110)
build_message(account, receiver_email, subject, body, html_content, bcc_mode, media) ==
    [ From |-> account.senderEmail,
      Subject |-> subject,
      To |-> IF bcc_mode THEN <<>> ELSE receiver_email,
      Bcc |-> IF bcc_mode THEN receiver_email ELSE <<>>,
      subtype |-> IF html_content THEN "html" ELSE "plain",
      body |-> body,
      attached |-> (media = "readable") ]

\* the log line of the attachment block, if any (email_sender.py 96-110)
attachment_event(media) ==
    CASE media = "readable" -> <<"attached">>
      [] media = "unreadable" -> <<"attach_error">>
      [] media = "none" -> <<>>

\* the log line and the return value of the mail session (email_sender.py 112-134)
session_event(outcome) ==
    CASE outcome = "ok" -> "sent"
      [] outcome = "auth" -> "auth_failed"
      [] outcome = "connect" -> "connect_failed"
      [] outcome = "other" -> "send_error"

\* a transmitter without the last handler, except Exception
session_raises_uncaught(outcome) == outcome = "other"

\* every exception of the mail session is caught (email_sender.py 125-134)
session_raises(outcome) == FALSE

\* an attachment block without its try
attachment_raises_unreadable(media) == media = "unreadable"

\* an error of the attachment block is caught and logged (email_sender.py 97-110)
attachment_raises(media) == FALSE

\* a transmitter whose authentication handler returns True
session_returns_auth_true(outcome) == outcome \in {"ok", "auth"}

session_returns(outcome) == outcome = "ok"

\* ---------------------------------------------------- /send-emails inputs
ConfigFields == {"senderEmail", "senderPassword", "smtpServer", "smtpPort"}

\* the sender configurations a request may carry: complete ones, one without
\* smtpPort, one with an empty password, one without smtpServer, one with port 0
ConfigNoPort == [f \in ConfigFields \ {"smtpPort"} |-> AccountA[f]]
ConfigEmptyPassword == [AccountA EXCEPT !.senderPassword = ""]
ConfigNoServer == [f \in ConfigFields \ {"smtpServer"} |-> AccountA[f]]
ConfigPortZero == [AccountA EXCEPT !.smtpPort = 0]
ConfigDicts == {AccountA, AccountB, ConfigNoPort, ConfigEmptyPassword, ConfigNoServer,
                ConfigPortZero}

Json(v) == [ok |-> TRUE, value |-> v]
BadJson == [ok |-> FALSE, value |-> <<>>]

RequestVariables == {BadJson, Json(<<NAME>>), Json(<<NAME, CODE>>)}
RequestConfigs == {BadJson} \cup {Json(c) : c \in BoundedSeq(ConfigDicts, MaxAccounts)}

\* the uploaded contact table: unparsable, or its columns and rows
Table(columns, rows) == [ok |-> TRUE, columns |-> columns, rows |-> rows]
BadTable == [ok |-> FALSE, columns |-> {}, rows |-> <<>>]
UploadRows ==
    { (EMAIL :> e) @@ (NAME :> StrCell(<<"A", "l">>)) :
          e \in {NaN, StrCell(AddrNoAt), StrCell(AddrA)} }
CsvFiles ==
    {BadTable}
    \cup {Table({EMAIL, NAME}, r) : r \in BoundedSeq(UploadRows, MaxRows)}
    \cup {Table({NAME}, r) : r \in BoundedSeq(RowsNoEmail, MaxRows)}

NoRenderInput == [template |-> <<>>, row_data |-> <<>>, variables |-> <<>>]
NoRequest == [variables |-> BadJson, email_configs |-> BadJson, csv_name_ok |-> FALSE,
              csv_file |-> BadTable]
NoResponse == [status |-> 0, detail |-> "", successful_emails |-> <<>>, failed_emails |-> <<>>]
ErrorResponse(code, detail) ==
    [status |-> code, detail |-> detail, successful_emails |-> <<>>, failed_emails |-> <<>>]

\* ------------------------------------------------- /send-emails validation
\* EmailConfig(**config): the three fields without a default are required (main.py 95-99)
EmailConfigAccepts(config) == {"senderEmail", "senderPassword", "smtpServer"} \subseteq DOMAIN config

\* EmailConfig(**config).model_dump(by_alias=True): smtpPort defaults to 587
EmailConfigDump(config) ==
    [f \in ConfigFields |-> IF f \in DOMAIN config THEN config[f] ELSE 587]

\* truth value of one dumped field
field_filled(config, f) == IF f = "smtpPort" THEN config[f] # 0 ELSE config[f] # ""

\* a check that leaves the password out
all_filled_but_password(config) ==
    \A f \in ConfigFields \ {"senderPassword"} : field_filled(config, f)

\* all([config['senderEmail'], ...])  (main.py 605)
all_filled(config) == \A f \in ConfigFields : field_filled(config, f)

\* a validation without the "if not email_configs_list" check
request_rejection_no_empty_check(variables, email_configs, csv_name_ok) ==
    IF ~variables.ok THEN "Invalid variables format"
    ELSE IF ~email_configs.ok THEN "Invalid email configurations format"
    ELSE IF \E i \in 1..Len(email_configs.value) : ~EmailConfigAccepts(email_configs.value[i])
         THEN "Error validating email configurations: validation error"
    ELSE IF \E i \in 1..Len(email_configs.value) :
                ~all_filled(EmailConfigDump(email_configs.value[i]))
         THEN "Error validating email configurations: All fields must be filled"
    ELSE IF ~csv_name_ok THEN "Uploaded file is not a CSV"
    ELSE ""

\* the outcome of main.py 592-614: the detail of the 400 answer, or "" when
\* the request passes
request_rejection(variables, email_configs, csv_name_ok) ==
    IF ~variables.ok THEN "Invalid variables format"
    ELSE IF ~email_configs.ok THEN "Invalid email configurations format"
    ELSE IF \E i \in 1..Len(email_configs.value) : ~EmailConfigAccepts(email_configs.value[i])
         THEN "Error validating email configurations: validation error"
    ELSE IF email_configs.value = <<>>
         THEN "Error validating email configurations: No email configurations provided"
    ELSE IF \E i \in 1..Len(email_configs.value) :
                ~all_filled(EmailConfigDump(email_configs.value[i]))
         THEN "Error validating email configurations: All fields must be filled"
    ELSE IF ~csv_name_ok THEN "Uploaded file is not a CSV"
    ELSE ""

\* the parameters of send_emails_from_dataframe_enhanced, those without a
\* default, and the keywords /send-emails calls it with
DispatcherParams ==
    {"df", "subject_template", "message_template", "variables", "sender_email",
     "sender_password", "smtp_server", "smtp_port", "html_content", "bcc_mode", "media_path"}
DispatcherRequired == DispatcherParams \ {"media_path"}
EndpointKeywords ==
    {"df", "subject_template", "message_template", "variables", "email_configs",
     "media_path", "html_content", "bcc_mode"}

\* python binds a keyword call: an unknown keyword or a missing required
\* parameter raises TypeError before the body runs
call_binds(params, required, keywords) ==
    keywords \subseteq params /\ required \subseteq keywords

\* the keys /send-emails reads from the dispatcher's result (main.py 663-668)
EndpointResultKeys == {"successful_emails", "failed_emails"}

\* a handler without the missing_vars check
table_rejection_no_missing_check(csv, variable_list) ==
    IF ~csv.ok THEN "Failed to parse CSV"
    ELSE IF EMAIL \notin csv.columns THEN "CSV must contain an 'email' column"
    ELSE ""

\* a cleanup written at the end of the try block, not in a finally
after_return_only(dir, code) == IF code = 200 THEN FALSE ELSE dir

\* the temporary directory after the handler has answered with this status:
\* the finally block removes it however the handler ends
\* (main.py 574-579, 676-681)
after_finally(dir, code) == FALSE

\* the outcome of main.py 616-650: the detail of the 422 answer, or ""
table_rejection(csv, variable_list) ==
    IF ~csv.ok THEN "Failed to parse CSV"
    ELSE IF \E i \in 1..Len(variable_list) : variable_list[i] \notin csv.columns
         THEN "Variables not found in CSV"
    ELSE IF EMAIL \notin csv.columns THEN "CSV must contain an 'email' column"
    ELSE ""

\* -------------------------------------------------------------- dispatcher
\* row.get("email", "")
row_get_email(row) == IF EMAIL \in DOMAIN row THEN row[EMAIL] ELSE StrCell(<<>>)

\* str(row.get("email", "")).strip()  (email_sender.py 158)
receiver_email_of(row) == strip(str(row_get_email(row)))

\* not receiver_email  (email_sender.py 160)
is_empty_address(receiver_email) == receiver_email = <<>>

\* a check that looks at the text after the first "@" instead of the last
is_invalid_address_first_at(receiver_email) ==
    IF ~contains(receiver_email, "@") THEN TRUE
    ELSE LET i == CHOOSE j \in 1..Len(receiver_email) :
                      receiver_email[j] = "@" /\ \A k \in 1..(j-1) : receiver_email[k] # "@"
         IN  ~contains(SubSeq(receiver_email, i + 1, Len(receiver_email)), ".")

\* "@" not in receiver_email or "." not in receiver_email.split("@")[-1]  (165)
is_invalid_address(receiver_email) ==
    \/ ~contains(receiver_email, "@")
    \/ ~contains(split_last(receiver_email, "@"), ".")

\* counters that forget the else branch
count_send_no_else(success, s, f) == IF success THEN <<s + 1, f>> ELSE <<s, f>>

\* the counters after a send (email_sender.py 190-193)
count_send(success, s, f) == IF success THEN <<s + 1, f>> ELSE <<s, f + 1>>

\* the counter after a skipped row (email_sender.py 162, 167)
count_skip(f) == f + 1

\* a break in place of the continue
next_after_skip_break(i, n) == n + 1

\* the row the loop goes to after a skipped row: continue (email_sender.py 163, 168)
next_after_skip(i, n) == i + 1

\* the row the loop goes to after a send (email_sender.py 157, 197)
next_after_send(i, n) == i + 1

\* a loop that expects one row more than the table has
loop_exhausted_late(i, n) == i > n + 1

\* df.iterrows() is exhausted (email_sender.py 157)
loop_exhausted(i, n) == i > n

\* counters kept from one call to the next, as module-level globals would be
start_count_kept(previous) == previous

\* the counters are locals set at the start of every call (email_sender.py 152-153)
start_count(previous) == 0

\* a send handed to a thread the loop does not wait for
pc_in_send_detached == "loop"

\* send_single_email is an ordinary call: the loop waits in it (email_sender.py 177-188)
pc_in_send == "send"

\* send_emails_from_dataframe_enhanced is called (email_sender.py 136-155)
DispatchCallWith(tables, accounts, opts) ==
    /\ d_pc = "idle"
    /\ e_pc = "idle"
    /\ caller' = "direct"
    /\ \E d \in tables, a \in accounts, st \in SubjectTemplates, mt \in MessageTemplates,
          vs \in DispatchVariables, o \in opts :
          /\ df' = d
          /\ sender' = a
          /\ templates' = [subject |-> st, message |-> mt, variables |-> vs]
          /\ options' = o
    /\ successful_sends' = start_count(successful_sends)
    /\ failed_sends' = start_count(failed_sends)
    /\ idx' = 1
    /\ log' = <<Event("starting", 0, <<>>)>>
    /\ calls' = <<>>
    /\ d_pc' = "loop"
    /\ runs' = 1
    /\ UNCHANGED <<result, prev_result, prev_calls, evars, rvars, xvars>>

DispatchCall == DispatchCallWith(DataFrames, Accounts, DispatchOptions)

\* a row whose email is empty or missing (email_sender.py 158-163)
SkipEmpty ==
    /\ d_pc = "loop"
    /\ idx <= Len(df)
    /\ is_empty_address(receiver_email_of(df[idx]))
    /\ log' = Append(log, Event("skip_empty", idx, <<>>))
    /\ failed_sends' = count_skip(failed_sends)
    /\ idx' = next_after_skip(idx, Len(df))
    /\ UNCHANGED <<d_pc, df, templates, sender, options, successful_sends,
                   calls, result, caller, evars, rvars, xvars, hvars>>

\* a row whose address is malformed (email_sender.py 165-168)
SkipInvalid ==
    /\ d_pc = "loop"
    /\ idx <= Len(df)
    /\ LET receiver_email == receiver_email_of(df[idx])
       IN  /\ ~is_empty_address(receiver_email)
           /\ is_invalid_address(receiver_email)
           /\ log' = Append(log, Event("skip_invalid", idx, receiver_email))
    /\ failed_sends' = count_skip(failed_sends)
    /\ idx' = next_after_skip(idx, Len(df))
    /\ UNCHANGED <<d_pc, df, templates, sender, options, successful_sends,
                   calls, result, caller, evars, rvars, xvars, hvars>>

\* a valid row: render, call send_single_email, which builds the message and
\* opens the mail session (email_sender.py 170-188, 81-113)
BeginSend ==
    /\ d_pc = "loop"
    /\ idx <= Len(df)
    /\ LET receiver_email == receiver_email_of(df[idx])
           row_dict == df[idx]
           personalized_subject ==
               replace_variables_in_message(templates.subject, row_dict, templates.variables)
           personalized_message ==
               replace_variables_in_message(templates.message, row_dict, templates.variables)
           msg == build_message(sender, receiver_email, personalized_subject,
                                personalized_message, options.html_content,
                                options.bcc_mode, options.media)
       IN  /\ ~is_empty_address(receiver_email)
           /\ ~is_invalid_address(receiver_email)
           /\ log' = log \o <<Event("sending", idx, receiver_email)>>
                         \o [k \in 1..Len(attachment_event(options.media)) |->
                                Event(attachment_event(options.media)[k], idx, receiver_email)]
           /\ IF attachment_raises(options.media)
              THEN /\ d_pc' = "raised"
                   /\ UNCHANGED calls
              ELSE /\ d_pc' = pc_in_send
                   /\ calls' = Append(calls, [row |-> idx, account |-> sender, msg |-> msg,
                                              session |-> "pending", returned |-> FALSE])
    /\ UNCHANGED <<df, templates, sender, options, idx, successful_sends, failed_sends,
                   result, caller, evars, rvars, xvars, hvars>>

\* the mail session ends, send_single_email returns, the outcome is counted
\* and the pacing sleep starts; an exception that left send_single_email
\* would leave the dispatcher too (email_sender.py 112-134, 190-197); the length
\* of the sleep, random.randint(*DELAY_BETWEEN_EMAILS), is not kept: time is
\* not part of the state
EndSend ==
    /\ d_pc = "send"
    /\ \E outcome \in SessionOutcomes :
          LET success == session_returns(outcome)
              counts == count_send(success, successful_sends, failed_sends)
              receiver_email == calls[Len(calls)].msg.To \o calls[Len(calls)].msg.Bcc
          IN  IF session_raises(outcome)
              THEN /\ calls' = [calls EXCEPT ![Len(calls)].session = outcome]
                   /\ d_pc' = "raised"
                   /\ UNCHANGED <<successful_sends, failed_sends, log>>
              ELSE /\ calls' = [calls EXCEPT ![Len(calls)].session = outcome,
                                             ![Len(calls)].returned = success]
                   /\ successful_sends' = counts[1]
                   /\ failed_sends' = counts[2]
                   /\ log' = log \o <<Event(session_event(outcome), idx, receiver_email),
                                      Event("sleeping", idx, <<>>)>>
                   /\ d_pc' = "sleep"
    /\ UNCHANGED <<df, templates, sender, options, idx, result, caller, evars, rvars, xvars, hvars>>

\* time.sleep returns and the loop goes to the next row (email_sender.py 197, 157)
WakeUp ==
    /\ d_pc = "sleep"
    /\ idx' = next_after_send(idx, Len(df))
    /\ d_pc' = "loop"
    /\ UNCHANGED <<df, templates, sender, options, successful_sends, failed_sends, log,
                   calls, result, caller, evars, rvars, xvars, hvars>>

\* the dictionary the dispatcher returns (email_sender.py 201)
dispatch_result(s, f) == [successful_sends |-> s, failed_sends |-> f]

\* what /send-emails answers once the dispatcher has returned: it reads the
\* two lists from the result; a missing key is a KeyError, answered as 500
\* (main.py 663-675)
endpoint_response(send_results) ==
    IF EndpointResultKeys \subseteq DOMAIN send_results
    THEN [status |-> 200, detail |-> "Email campaign initiated",
          successful_emails |-> send_results["successful_emails"],
          failed_emails |-> send_results["failed_emails"]]
    ELSE ErrorResponse(500, "Unexpected server error: KeyError")

\* the loop is over: summary and return (email_sender.py 199-201)
DispatchReturn ==
    /\ d_pc = "loop"
    /\ loop_exhausted(idx, Len(df))
    /\ log' = Append(log, Event("finished", 0, <<>>))
    /\ result' = dispatch_result(successful_sends, failed_sends)
    /\ d_pc' = "done"
    /\ IF caller = "endpoint"
       THEN /\ response' = endpoint_response(dispatch_result(successful_sends, failed_sends))
            /\ temp_dir' = after_finally(temp_dir,
                     endpoint_response(dispatch_result(successful_sends, failed_sends)).status)
            /\ e_pc' = "responded"
            /\ UNCHANGED <<e_req, e_vars, e_configs, e_df>>
       ELSE UNCHANGED evars
    /\ UNCHANGED <<df, templates, sender, options, idx, successful_sends, failed_sends,
                   calls, caller, rvars, xvars, hvars>>

\* send_emails_from_dataframe_enhanced is called once more with the arguments
\* of the call that has just returned (email_sender.py 136-155)
DispatchAgain ==
    /\ d_pc = "done"
    /\ caller = "direct"
    /\ runs < MaxRuns
    /\ prev_result' = result
    /\ prev_calls' = calls
    /\ runs' = runs + 1
    /\ successful_sends' = start_count(successful_sends)
    /\ failed_sends' = start_count(failed_sends)
    /\ idx' = 1
    /\ log' = <<Event("starting", 0, <<>>)>>
    /\ calls' = <<>>
    /\ d_pc' = "loop"
    /\ UNCHANGED <<df, templates, sender, options, result, caller, evars, rvars, xvars>>

\* /send-emails up to its first await: validation of the form fields, then
\* the temporary directory (main.py 592-621)
SendEmailsRequestWith(variable_texts, config_texts, files) ==
    /\ e_pc = "idle"
    /\ d_pc = "idle"
    /\ \E variables \in variable_texts, email_configs \in config_texts,
          csv_name_ok \in BOOLEAN, csv_file \in files :
          LET detail == request_rejection(variables, email_configs, csv_name_ok)
          IN  /\ e_req' = [variables |-> variables, email_configs |-> email_configs,
                           csv_name_ok |-> csv_name_ok, csv_file |-> csv_file]
              /\ IF detail # ""
                 THEN /\ response' = ErrorResponse(400, detail)
                      /\ e_pc' = "responded"
                      /\ UNCHANGED <<e_vars, e_configs, temp_dir>>
                 ELSE /\ e_vars' = variables.value
                      /\ e_configs' = [i \in 1..Len(email_configs.value) |->
                                           EmailConfigDump(email_configs.value[i])]
                      /\ temp_dir' = TRUE
                      /\ e_pc' = "read_csv"
                      /\ UNCHANGED response
    /\ UNCHANGED <<dvars, e_df, rvars, xvars>>

SendEmailsRequest == SendEmailsRequestWith(RequestVariables, RequestConfigs, CsvFiles)

\* the rest of /send-emails: the table is parsed and checked, the attachment
\* saved, the dispatcher called; the temporary directory is removed on every
\* path (main.py 623-681).  The call passes email_configs and no sender_*
\* argument: when it does not bind, the TypeError is answered as 500; the
\* last branch is the dispatcher entered without an account
SendEmailsBody ==
    /\ e_pc = "read_csv"
    /\ \E o \in DispatchOptions, st \in SubjectTemplates, mt \in MessageTemplates :
          LET csv == e_req.csv_file
              detail == table_rejection(csv, e_vars)
          IN  /\ e_df' = csv
              /\ IF detail # ""
                 THEN /\ response' = ErrorResponse(422, detail)
                      /\ temp_dir' = after_finally(temp_dir, 422)
                      /\ e_pc' = "responded"
                      /\ UNCHANGED dvars
                 ELSE IF ~call_binds(DispatcherParams, DispatcherRequired, EndpointKeywords)
                 THEN /\ response' = ErrorResponse(500, "Unexpected server error: TypeError")
                      /\ temp_dir' = after_finally(temp_dir, 500)
                      /\ e_pc' = "responded"
                      /\ UNCHANGED dvars
                 ELSE /\ df' = csv.rows
                      /\ templates' = [subject |-> st, message |-> mt, variables |-> e_vars]
                      /\ options' = o
                      /\ sender' = NoAccount
                      /\ successful_sends' = 0
                      /\ failed_sends' = 0
                      /\ idx' = 1
                      /\ log' = <<Event("starting", 0, <<>>)>>
                      /\ calls' = <<>>
                      /\ d_pc' = "loop"
                      /\ caller' = "endpoint"
                      /\ e_pc' = "dispatching"
                      /\ UNCHANGED <<result, hvars, temp_dir, response>>
    /\ UNCHANGED <<e_req, e_vars, e_configs, rvars, xvars>>

\* --------------------------------------------------------------- activation
\* what get_motherboard_serial and get_processor_id return when every query
\* fails: a text that starts with "Error getting ..." (main.py 118-120, 149-151)
ReadFailure == <<"E", "r", "r", "o", "r">>

ProcessorIds == {<<"a", "1">>, <<"b", "2">>}
MotherboardSerials == {<<"m", "7">>}

\* the text in which both readers report an error (main.py 188, 292)
reports_error(reading) ==
    \E i \in 1..Len(reading) : startswith(SubSeq(reading, i, Len(reading)), ReadFailure)

\* generate_activation_key (main.py 154-181): the key of f"{p}:{m}".upper().
\* The sha-512 digest, in base 36, cut to 16 characters and grouped by four
\* (160-181) is a map without collisions on the identifiers at hand, whose
\* values are upper-case and hold no space; here the letter K and the input
\* with its colon turned into a dash
generate_activation_key(processorId, motherboardSerial) ==
    LET input_string == upper(processorId \o <<":">> \o motherboardSerial)
    IN  <<"K">> \o [i \in 1..Len(input_string) |->
                       IF input_string[i] = ":" THEN "-" ELSE input_string[i]]

\* the activation file (main.py 87)
Absent == [exists |-> FALSE, content |-> <<>>]
FileWith(content) == [exists |-> TRUE, content |-> content]

\* what the activation server may answer, or how the request to it may fail
HttpAnswer(code, body, success, activationStatus) ==
    [kind |-> "http", status |-> code, body |-> body, success |-> success,
     activationStatus |-> activationStatus]
NoAnswer(kind) ==
    [kind |-> kind, status |-> 0, body |-> "none", success |-> "absent",
     activationStatus |-> "absent"]
AnswerActive == HttpAnswer(200, "object", "true", "active")
ServerAnswers ==
    { AnswerActive,
      HttpAnswer(200, "object", "true", "inactive"),
      HttpAnswer(200, "object", "false", "active"),
      HttpAnswer(200, "not_json", "absent", "absent"),
      HttpAnswer(200, "not_object", "absent", "absent"),
      HttpAnswer(404, "object", "true", "active"),
      NoAnswer("connection_error"),
      NoAnswer("timeout"),
      NoAnswer("unexpected") }

\* a test that looks at the status text alone
answers_active_by_status(answer) == answer.activationStatus = "active"

\* api_response_data.get("success", False) and the status "active"
\* (main.py 213-216, 363)
answers_active(answer) == answer.success = "true" /\ answer.activationStatus = "active"

\* the answer of an activation endpoint: HTTP status, and its success or
\* isActivated field
Answer(path, code, ok) == [path |-> path, status |-> code, ok |-> ok]
NoActivationInput ==
    [p |-> <<>>, m |-> <<>>, key |-> <<>>, answer |-> NoAnswer("none"),
     read |-> "none", remove_ok |-> TRUE]

\* raise HTTPException(status_code=status.HTTP_..., ...): main.py imports no
\* name status (lines 1-17), so the expression raises NameError; inside the
\* try of the pre-check that is caught by "except Exception", whose own raise
\* fails the same way; the server answers an unhandled exception with 500
raise_with_status(intended) == 500

\* os.remove(ACTIVATION_FILE) inside try/except OSError
remove(file, remove_ok) == IF remove_ok THEN Absent ELSE file

\* the keys a client may send for the identifiers p and m: the key, the key
\* in lower case between spaces, and a key that is not the machine's
SuppliedKeys(p, m) ==
    { generate_activation_key(p, m),
      <<" ">> \o lower(generate_activation_key(p, m)) \o <<" ">>,
      <<"K", "X">> }

\* a comparison that accepts every key
key_matches_any(generated_key, activationKey) == TRUE

\* generated_key == request.activationKey.strip().upper() (main.py 259)
key_matches(generated_key, activationKey) == generated_key = upper(strip(activationKey))

\* the way /activate takes through main.py 208-276
activate_path(answer, generated_key, activationKey) ==
    IF answer.kind # "http" THEN answer.kind
    ELSE IF answer.status >= 400 THEN "http_error"
    ELSE IF answer.body # "object" THEN "unexpected"
    ELSE IF ~answers_active(answer) THEN "not_active"
    ELSE IF key_matches(generated_key, activationKey) THEN "write"
    ELSE "key_mismatch"

\* a handler that stores the key as the client sent it
key_to_store_supplied(generated_key, activationKey) == activationKey

\* f.write(generated_key) (main.py 263)
key_to_store(generated_key, activationKey) == generated_key

\* open(ACTIVATION_FILE, "w") and write: the open may fail and leave the file
\* as it was, the write may fail after the open has emptied the file
write_file(file, content, outcome) ==
    CASE outcome = "ok" -> FileWith(content)
      [] outcome = "open_fails" -> file
      [] outcome = "write_fails" -> FileWith(<<>>)

\* what /activate answers (main.py 225-276)
activate_answer(path, outcome) ==
    CASE path = "write" /\ outcome = "ok" -> Answer("written", 200, TRUE)
      [] path = "write" /\ outcome # "ok" -> Answer("write_failed", raise_with_status(500), FALSE)
      [] path = "not_active" -> Answer(path, raise_with_status(403), FALSE)
      [] path = "key_mismatch" -> Answer(path, raise_with_status(400), FALSE)
      [] path = "unexpected" -> Answer(path, raise_with_status(500), FALSE)
      [] OTHER -> Answer(path, raise_with_status(503), FALSE)

\* the summary of the request answered last, kept when the next one arrives:
\* the endpoint, whether it answered success, and the identifiers a
\* successful /activate was for
Last ==
    IF a_op = "activate" /\ a_out.ok
    THEN [op |-> a_op, ok |-> TRUE, p |-> a_in.p, m |-> a_in.m]
    ELSE [op |-> a_op, ok |-> a_out.ok, p |-> <<>>, m |-> <<>>]

\* POST /activate (main.py 197-277)
Activate ==
    /\ \E p \in ProcessorIds, m \in MotherboardSerials, answer \in ServerAnswers,
          outcome \in {"ok", "open_fails", "write_fails"} :
          \E activationKey \in SuppliedKeys(p, m) :
             LET generated_key == generate_activation_key(p, m)
                 path == activate_path(answer, generated_key, activationKey)
             IN  /\ path # "write" => outcome = "ok"
                 /\ a_in' = [NoActivationInput EXCEPT !.p = p, !.m = m, !.key = activationKey,
                                                      !.answer = answer]
                 /\ a_out' = activate_answer(path, outcome)
                 /\ act_file' = IF path = "write"
                                THEN write_file(act_file,
                                                key_to_store(generated_key, activationKey),
                                                outcome)
                                ELSE act_file
                 /\ logged_out' = IF path = "write" /\ outcome = "ok" THEN FALSE
                                  ELSE logged_out
    /\ a_op' = "activate"
    /\ a_last' = Last
    /\ file_before' = act_file
    /\ UNCHANGED <<dvars, evars, rvars, lvars, pvars>>

\* stored_key = f.read().strip() (main.py 372-373)
stored_key_of(file) == strip(file.content)

\* the way /check-activation takes through main.py 292-518
check_path(motherboard_serial, processor_id, answer, file, read) ==
    IF reports_error(motherboard_serial) \/ reports_error(processor_id) THEN "hw_error"
    ELSE IF answer.kind # "http" THEN answer.kind
    ELSE IF answer.body = "not_object" THEN "unexpected"
    ELSE IF answer.status >= 400 THEN "server_error"
    ELSE IF ~answers_active(answer) THEN "not_active"
    ELSE IF file.exists /\ read = "ioerror" THEN "unreadable"
    ELSE IF file.exists /\ read = "other" THEN "unexpected"
    ELSE IF file.exists
            /\ generate_activation_key(processor_id, motherboard_serial) = stored_key_of(file)
         THEN "activated"
    ELSE "mismatch"

\* a handler whose timeout branch leaves the file alone
removes_file_but_timeout(path) == path \notin {"activated", "timeout"}

\* every way but the activated one removes the file when it exists
\* (main.py 298-303, 344-349, 377-381, 407-412, 424-429, 453-460, 476-481, 498-503)
removes_file(path) == path # "activated"

\* GET /check-activation (main.py 279-518): the machine reports each
\* identifier or the error text; reading the file succeeds or raises IOError
\* or another exception
CheckActivation ==
    /\ \E processor_id \in ProcessorIds \cup {ReadFailure},
          motherboard_serial \in MotherboardSerials \cup {ReadFailure},
          answer \in ServerAnswers, read \in {"ok", "ioerror", "other"},
          remove_ok \in BOOLEAN :
          LET path == check_path(motherboard_serial, processor_id, answer, act_file, read)
              unread == check_path(motherboard_serial, processor_id, answer, act_file, "ok")
          IN  \* the server is not asked after a failed reading, the file is read
              \* only when it exists and the server answered active, and removed
              \* only when it exists on a way that removes it: what is not used
              \* is left out
              /\ path = "hw_error" => answer = AnswerActive
              /\ ~(act_file.exists /\ unread \in {"activated", "mismatch"}) => read = "ok"
              /\ ~(removes_file(path) /\ act_file.exists) => remove_ok
              /\ a_in' = [NoActivationInput EXCEPT !.p = processor_id, !.m = motherboard_serial,
                                                   !.answer = answer, !.read = read,
                                                   !.remove_ok = remove_ok]
              /\ a_out' = Answer(path, 200, path = "activated")
              /\ act_file' = IF removes_file(path) /\ act_file.exists
                             THEN remove(act_file, remove_ok)
                             ELSE act_file
    /\ a_op' = "check"
    /\ a_last' = Last
    /\ file_before' = act_file
    /\ UNCHANGED <<logged_out, dvars, evars, rvars, lvars, pvars>>

\* a logout that answers without touching the file
logout_file_kept(file, remove_ok) == file

\* /logout removes the file when it exists (main.py 522-524)
logout_file(file, remove_ok) == IF file.exists THEN remove(file, remove_ok) ELSE file

\* what /logout answers (main.py 525-532)
logout_answer(file, remove_ok) ==
    IF ~file.exists THEN Answer("no_file", 200, TRUE)
    ELSE IF remove_ok THEN Answer("deleted", 200, TRUE)
    ELSE Answer("delete_failed", 500, FALSE)

\* POST /logout (main.py 520-532)
Logout ==
    /\ \E remove_ok \in BOOLEAN :
          /\ ~act_file.exists => remove_ok
          /\ a_in' = [NoActivationInput EXCEPT !.remove_ok = remove_ok]
          /\ a_out' = logout_answer(act_file, remove_ok)
          /\ act_file' = logout_file(act_file, remove_ok)
          /\ logged_out' = IF logout_answer(act_file, remove_ok).ok THEN TRUE ELSE logged_out
    /\ a_op' = "logout"
    /\ a_last' = Last
    /\ file_before' = act_file
    /\ UNCHANGED <<dvars, evars, rvars, lvars, pvars>>

NoActivity ==
    /\ a_op = "none"
    /\ a_in = NoActivationInput
    /\ a_out = Answer("none", 0, FALSE)
    /\ a_last = [op |-> "none", ok |-> FALSE, p |-> <<>>, m |-> <<>>]
    /\ logged_out = FALSE

\* the activation file the program may find when it starts: none, the key
\* of the machine, the key followed by a space, something else
InitActivation ==
    /\ act_file \in { Absent,
                      FileWith(generate_activation_key(<<"a", "1">>, <<"m", "7">>)),
                      FileWith(generate_activation_key(<<"a", "1">>, <<"m", "7">>) \o <<" ">>),
                      FileWith(<<"o", "l", "d">>) }
    /\ file_before = act_file
    /\ NoActivity

NextActivation == Activate \/ CheckActivation \/ Logout

\* ------------------------------------------------------------------- server
\* seconds the lifespan waits for the shutdown event (main.py 27)
SHUTDOWN_GRACE_PERIOD == 5

\* send_emails_from_dataframe_enhanced is called without await inside the
\* async handler (main.py 653): while it runs the event loop runs nothing else
loop_free == ~(caller = "endpoint" /\ d_pc \in {"loop", "send", "sleep"})

\* the server hands requests to the handlers until its shutdown begins
accepting == l_pc = "serving" /\ loop_free

\* GET /health (main.py 683-686)
HealthRequest ==
    /\ accepting
    /\ served < MaxServed
    /\ served' = served + 1
    /\ UNCHANGED <<l_pc, shutdown_event, elapsed, wait_outcome, dvars, evars, rvars, avars,
                   pvars>>

\* POST /shutdown (main.py 688-692)
ShutdownRequest ==
    /\ accepting
    /\ shutdown_event' = TRUE
    /\ UNCHANGED <<l_pc, elapsed, wait_outcome, served, dvars, evars, rvars, avars, pvars>>

\* the uploads of the requests the server is sent here
ServerFiles == {BadTable} \cup {Table({EMAIL, NAME}, <<r>>) : r \in UploadRows}

\* an answer of /preview-csv without a table
PreviewError(code, detail) ==
    [status |-> code, detail |-> detail, columns |-> {}, preview |-> <<>>, total_rows |-> 0]

\* df.head(10).fillna("") (main.py 560)
preview_of(rows) ==
    [i \in 1..(IF Len(rows) < 10 THEN Len(rows) ELSE 10) |->
        [c \in DOMAIN rows[i] |-> IF notna(rows[i][c]) THEN rows[i][c] ELSE StrCell(<<>>)]]

\* /preview-csv up to its await: the file name, then the temporary directory
\* (main.py 534-547)
PreviewRequest ==
    /\ accepting
    /\ p_pc = "idle"
    /\ \E csv_name_ok \in BOOLEAN, csv_file \in ServerFiles :
          /\ p_req' = [csv_name_ok |-> csv_name_ok, csv_file |-> csv_file]
          /\ IF ~csv_name_ok
             THEN /\ p_response' = PreviewError(400, "Uploaded file is not a CSV")
                  /\ p_pc' = "responded"
                  /\ UNCHANGED p_temp_dir
             ELSE /\ p_temp_dir' = TRUE
                  /\ p_pc' = "read_csv"
                  /\ UNCHANGED p_response
    /\ UNCHANGED <<dvars, evars, rvars, avars, lvars>>

\* the rest of /preview-csv: the upload is written and parsed, the answer
\* built, the temporary directory removed (main.py 547-579)
PreviewBody ==
    /\ loop_free
    /\ p_pc = "read_csv"
    /\ \E written \in BOOLEAN :
          LET csv == p_req.csv_file
              answer == IF ~written THEN PreviewError(500, "Unexpected error")
                        ELSE IF ~csv.ok THEN PreviewError(422, "Failed to parse CSV")
                        ELSE [status |-> 200, detail |-> "success", columns |-> csv.columns,
                              preview |-> preview_of(csv.rows), total_rows |-> Len(csv.rows)]
          IN  /\ p_response' = answer
              /\ p_temp_dir' = after_finally(p_temp_dir, answer.status)
    /\ p_pc' = "responded"
    /\ UNCHANGED <<p_req, dvars, evars, rvars, avars, lvars>>

\* the submissions the server is sent here
ServerSendEmailsRequest ==
    /\ accepting
    /\ SendEmailsRequestWith({BadJson, Json(<<NAME>>), Json(<<NAME, CODE>>)},
                             {Json(<<>>), Json(<<AccountA>>)}, ServerFiles)

ServerSendEmailsBody ==
    /\ loop_free
    /\ SendEmailsBody

\* the requests of a running server, interleaved where the handlers await
NextServer ==
    \/ ServerSendEmailsRequest
    \/ ServerSendEmailsBody
    \/ PreviewRequest
    \/ PreviewBody
    \/ HealthRequest
    \/ ShutdownRequest

\* ----------------------------------------------------------------- lifespan
\* the server stops serving and the lifespan resumes after its yield
\* (main.py 38-39)
BeginShutdown ==
    /\ l_pc = "serving"
    /\ loop_free
    /\ e_pc \in {"idle", "responded"}
    /\ p_pc \in {"idle", "responded"}
    /\ l_pc' = "waiting"
    /\ elapsed' = 0
    /\ UNCHANGED <<shutdown_event, wait_outcome, served, dvars, evars, rvars, avars, pvars>>

\* a wait without a timeout
wait_times_out_never(seconds) == FALSE

\* asyncio.wait_for(..., timeout=SHUTDOWN_GRACE_PERIOD) (main.py 43, 45)
wait_times_out(seconds) == seconds >= SHUTDOWN_GRACE_PERIOD

\* a second of the wait goes by with the event not set
Tick ==
    /\ l_pc = "waiting"
    /\ ~shutdown_event
    /\ elapsed < SHUTDOWN_GRACE_PERIOD
    /\ elapsed' = elapsed + 1
    /\ UNCHANGED <<l_pc, shutdown_event, wait_outcome, served, dvars, evars, rvars, avars,
                   pvars>>

\* the wait ends: the event is set, or the grace period is over (main.py 41-46)
WaitEnds ==
    /\ l_pc = "waiting"
    /\ shutdown_event \/ wait_times_out(elapsed)
    /\ wait_outcome' = IF shutdown_event THEN "set" ELSE "timeout"
    /\ l_pc' = "cleanup"
    /\ UNCHANGED <<shutdown_event, elapsed, served, dvars, evars, rvars, avars, pvars>>

\* the wait raises something else, which is logged (main.py 47-48)
WaitRaises ==
    /\ l_pc = "waiting"
    /\ wait_outcome' = "raised"
    /\ l_pc' = "cleanup"
    /\ UNCHANGED <<shutdown_event, elapsed, served, dvars, evars, rvars, avars, pvars>>

\* final cleanup and sys.exit(0) (main.py 50-54)
Exit ==
    /\ l_pc = "cleanup"
    /\ l_pc' = "exited"
    /\ UNCHANGED <<shutdown_event, elapsed, wait_outcome, served, dvars, evars, rvars, avars,
                   pvars>>

\* the event loop goes on running the lifespan, and time goes by
LifespanStep == Tick \/ WaitEnds \/ Exit

NextLife ==
    \/ HealthRequest
    \/ ShutdownRequest
    \/ BeginShutdown
    \/ Tick
    \/ WaitEnds
    \/ WaitRaises
    \/ Exit

\* the server after startup: serving, nothing uploaded
Serving ==
    /\ l_pc = "serving"
    /\ shutdown_event = FALSE
    /\ elapsed = 0
    /\ wait_outcome = "none"
    /\ served = 0
    /\ p_pc = "idle"
    /\ p_req = [csv_name_ok |-> FALSE, csv_file |-> BadTable]
    /\ p_temp_dir = FALSE
    /\ p_response = PreviewError(0, "")

\* the state before any call or request
Idle ==
    /\ d_pc = "idle"
    /\ df = <<>>
    /\ templates = NoTemplates
    /\ sender = NoAccount
    /\ options = NoOptions
    /\ idx = 0
    /\ successful_sends = 0
    /\ failed_sends = 0
    /\ log = <<>>
    /\ calls = <<>>
    /\ result = NoResult
    /\ caller = "none"
    /\ e_pc = "idle"
    /\ e_req = NoRequest
    /\ e_vars = <<>>
    /\ e_configs = <<>>
    /\ e_df = BadTable
    /\ temp_dir = FALSE
    /\ response = NoResponse
    /\ runs = 0
    /\ prev_result = NoResult
    /\ prev_calls = <<>>

RendererIdle ==
    /\ r_pc = "idle"
    /\ r_in = NoRenderInput
    /\ r_out = <<>>

\* no activation file and no request to an activation endpoint yet
NotActivated ==
    /\ act_file = Absent
    /\ file_before = Absent
    /\ NoActivity

Init ==
    /\ Idle
    /\ RendererIdle
    /\ NotActivated
    /\ Serving

Next ==
    \/ DispatchCall
    \/ SkipEmpty
    \/ SkipInvalid
    \/ BeginSend
    \/ EndSend
    \/ WakeUp
    \/ DispatchReturn
    \/ SendEmailsRequest
    \/ SendEmailsBody

Spec == Init /\ [][Next]_vars

\* the dispatcher runs in one thread that is never descheduled for good, and
\* every mail session and every sleep comes to an end
DispatcherStep == SkipEmpty \/ SkipInvalid \/ BeginSend \/ EndSend \/ WakeUp \/ DispatchReturn

\* the dispatcher called on its own, on tables of the four kinds of address
LiveDataFrames ==
    BoundedSeq({ (EMAIL :> e) @@ (NAME :> StrCell(<<"A", "l">>)) :
                     e \in {NaN, StrCell(AddrBlank), StrCell(AddrNoAt), StrCell(AddrA)} },
               MaxRows)

LiveDispatchCall == DispatchCallWith(LiveDataFrames, {AccountA}, {NoOptions})

LiveNext == LiveDispatchCall \/ DispatcherStep

LiveSpec == Init /\ [][LiveNext]_vars /\ WF_vars(DispatcherStep)

\* the dispatcher called again and again on the same arguments
NextTwice == LiveDispatchCall \/ DispatcherStep \/ DispatchAgain

SpecTwice == Init /\ [][NextTwice]_vars

\* the activation endpoints on their own
InitWithFile ==
    /\ Idle
    /\ RendererIdle
    /\ Serving
    /\ InitActivation

SpecActivation == InitWithFile /\ [][NextActivation]_vars

\* the server and its requests
SpecServer == Init /\ [][NextServer]_vars

\* the lifespan of the server, from serving to the exit of the process
SpecLife == Init /\ [][NextLife]_vars /\ WF_vars(LifespanStep)

\* ------------------------------------------------- the renderer on its own
HiTemplate ==
    <<"H", "i", " ", "{", "n", "a", "m", "e", "}", ",", " ", "y", "o", "u", "r", " ",
      "c", "o", "d", "e", " ", "i", "s", " ", "{", "c", "o", "d", "e", "}">>
RenderTemplates ==
    { HiTemplate,
      <<"{", "n", "a", "m", "e", "}", "{", "n", "a", "m", "e", "}">>,
      <<"{", "{", "n", "a", "m", "e", "}", "}">>,
      <<"{", "c", "o", "d", "e", "}", "{", "n", "a", "m", "e">>,
      <<"{", "n", "a", "m", "{", "c", "o", "d", "e", "}", "e", "}">>,
      <<"{", "n", "a", "{", "n", "a", "m", "e", "}", "m", "e", "}">> }
RenderRows ==
    { <<>>,
      (NAME :> StrCell(<<"A", "l">>)),
      (NAME :> StrCell(<<"A", "l">>)) @@ (CODE :> StrCell(<<"9">>)),
      (NAME :> StrCell(<<"A", "l">>)) @@ (CODE :> IntCell(90)),
      (NAME :> NaN) @@ (CODE :> StrCell(<<"9">>)),
      (NAME :> StrCell(<<"{", "c", "o", "d", "e", "}">>)) @@ (CODE :> StrCell(<<"9">>)) }
RenderVariables ==
    { <<>>, <<NAME>>, <<CODE>>, <<NAME, CODE>>, <<CODE, NAME>>, <<NAME, NAME>> }

\* replace_variables_in_message is called and returns (email_sender.py 51-63)
RenderCall ==
    /\ r_pc = "ready"
    /\ r_out' = replace_variables_in_message(r_in.template, r_in.row_data, r_in.variables)
    /\ r_pc' = "done"
    /\ UNCHANGED <<r_in, dvars, evars, xvars>>

InitRender ==
    /\ Idle
    /\ NotActivated
    /\ Serving
    /\ r_pc = "ready"
    /\ r_in \in [template : RenderTemplates, row_data : RenderRows, variables : RenderVariables]
    /\ r_out = <<>>

NextRender == RenderCall

SpecRender == InitRender /\ [][NextRender]_vars

\* ====================================================== checked properties
\* the number of rows whose outcome has been decided
Decided ==
    CASE d_pc = "idle" -> 0
      [] d_pc = "loop" -> idx - 1
      [] d_pc = "send" -> idx - 1
      [] d_pc = "sleep" -> idx
      [] d_pc = "done" -> Len(df)

\* the number of rows the loop has looked at
Reached ==
    CASE d_pc = "idle" -> 0
      [] d_pc = "loop" -> idx - 1
      [] d_pc = "send" -> idx
      [] d_pc = "sleep" -> idx
      [] d_pc = "done" -> Len(df)

SkipEvents == {"skip_empty", "skip_invalid"}
TransmitFailureEvents == {"auth_failed", "connect_failed", "send_error"}
FailureEvents == SkipEvents \cup TransmitFailureEvents

LogEntries(evs) == {k \in 1..Len(log) : log[k].ev \in evs}
RowEntries(i, evs) == {k \in 1..Len(log) : log[k].ev \in evs /\ log[k].row = i}
RowSucceeded(i) == RowEntries(i, {"sent"}) # {}
RowFailed(i) == RowEntries(i, FailureEvents) # {}
RowCalls(i) == {j \in 1..Len(calls) : calls[j].row = i}

\* C1: every row yields exactly one terminal outcome: after i rows the
\* successes and the failures sum to i, every decided row is counted once,
\* as a success or as a failure and never as both, no undecided row is
\* counted, and the returned totals sum to the number of rows.
C1_OneOutcomePerRow ==
    d_pc # "idle" =>
        /\ successful_sends + failed_sends = Decided
        /\ \A i \in 1..Len(df) :
              /\ Cardinality(RowEntries(i, FailureEvents \cup {"sent"}))
                    = IF i <= Decided THEN 1 ELSE 0
              /\ ~(RowSucceeded(i) /\ RowFailed(i))
        /\ successful_sends = Cardinality({i \in 1..Len(df) : RowSucceeded(i)})
        /\ failed_sends = Cardinality({i \in 1..Len(df) : RowFailed(i)})
        /\ d_pc = "done" => result.successful_sends + result.failed_sends = Len(df)

C1_Witness ==
    /\ d_pc = "done"
    /\ result.successful_sends >= 1
    /\ LogEntries(SkipEvents) # {}
    /\ LogEntries(TransmitFailureEvents) # {}

\* the accounts the transmitter was called with, in call order
AccountUse == [j \in 1..Len(calls) |-> calls[j].account]

PassesValidation(row) ==
    /\ ~is_empty_address(receiver_email_of(row))
    /\ ~is_invalid_address(receiver_email_of(row))

ValidCount(rows) == Cardinality({i \in 1..Len(rows) : PassesValidation(rows[i])})

\* the accounts a strict rotation over accs uses for n sends
Rotation(accs, n) == [j \in 1..n |-> accs[((j - 1) % Len(accs)) + 1]]

\* a submission that got past the caller-side validation
PassedCallerValidation == e_pc = "responded" /\ response.status \notin {400, 422}

\* C2: in a finished dispatch with k >= 1 accounts the j-th transmitter call
\* uses account (j mod k), starting at account 0, one call per valid contact.
C2_RoundRobin ==
    /\ (d_pc = "done" /\ caller = "direct") => AccountUse = Rotation(<<sender>>, ValidCount(df))
    /\ PassedCallerValidation => AccountUse = Rotation(e_configs, ValidCount(e_df.rows))

PassesAt(i) == PassesValidation(df[i])

\* C4: no early abort: the transmitter is called exactly once for every
\* valid contact the loop has reached, in input order, whatever happened to
\* the contacts before it, and at return every row has been reached.
C4_NoEarlyAbort ==
    d_pc # "idle" =>
        /\ [j \in 1..Len(calls) |-> calls[j].row] = SelectSeq([i \in 1..Reached |-> i], PassesAt)
        /\ d_pc = "done" => Reached = Len(df) /\ idx = Len(df) + 1

C4_Witness ==
    /\ d_pc = "done"
    /\ Len(calls) >= 2
    /\ \E k \in LogEntries(TransmitFailureEvents) : log[k].row = calls[1].row
    /\ \E k \in LogEntries(SkipEvents) : log[k].row < calls[Len(calls)].row

\* C5: a dispatch that has been called finishes and returns its totals,
\* whatever the rows and the outcomes of the sends.
C5_DispatchTerminates == (d_pc = "loop") ~> (d_pc = "done" /\ result # NoResult)

C5_Witness ==
    /\ d_pc = "done"
    /\ Len(df) >= 2
    /\ result.failed_sends = Len(df)
    /\ Len(calls) >= 1

ZeroAccounts == e_req.variables.ok /\ e_req.email_configs.ok /\ e_req.email_configs.value = <<>>

\* C6 as stated: with zero sender accounts and N contacts the campaign result
\* is N failures and the transmitter is never called.
C6_ZeroAccountsAllFail ==
    (e_pc = "responded" /\ ZeroAccounts) =>
        /\ calls = <<>>
        /\ \/ result.failed_sends = Len(e_req.csv_file.rows)
           \/ (response.status = 200
                 /\ Len(response.failed_emails) = Len(e_req.csv_file.rows))

\* C6 amended: with zero sender accounts the submission is answered 400
\* before the contact table is read; no contact is recorded as failed, no
\* dispatch is started and the transmitter is never called.
C6_ZeroAccountsRejected ==
    (e_pc # "idle" /\ ZeroAccounts) =>
        /\ e_pc = "responded"
        /\ response.status = 400
        /\ e_df = BadTable
        /\ ~temp_dir
        /\ d_pc = "idle" /\ log = <<>> /\ result = NoResult
        /\ failed_sends = 0
        /\ calls = <<>>

C6_Witness ==
    /\ e_pc = "responded"
    /\ ZeroAccounts
    /\ e_req.csv_name_ok
    /\ Len(e_req.csv_file.rows) >= 2
    /\ response.status = 400

NonBlank(s) == \E k \in 1..Len(s) : s[k] # " "

\* the text between the first and the last non-blank character
Trimmed(s) ==
    IF ~NonBlank(s) THEN <<>>
    ELSE LET a == CHOOSE k \in 1..Len(s) : s[k] # " " /\ \A m \in 1..(k-1) : s[m] = " "
             b == CHOOSE k \in 1..Len(s) : s[k] # " " /\ \A m \in (k+1)..Len(s) : s[m] = " "
         IN  SubSeq(s, a, b)

\* absent, null or blank
EmptyEmail(row) ==
    \/ EMAIL \notin DOMAIN row
    \/ row[EMAIL].kind = "nan"
    \/ row[EMAIL].kind = "str" /\ ~NonBlank(row[EMAIL].s)

\* C7: a contact whose email is absent, null or blank is recorded as failed
\* with the "missing" reason, not the "malformed" one, and gets no
\* transmitter call.
C7_EmptyEmailIsMissing ==
    \A i \in 1..Reached :
        EmptyEmail(df[i]) =>
            /\ RowEntries(i, {"skip_empty"}) # {}
            /\ RowEntries(i, {"skip_invalid"}) = {}
            /\ RowCalls(i) = {}

\* an "@" with no "@" after it and a "." after it
WellFormed(t) ==
    \E p \in 1..Len(t) :
        /\ t[p] = "@"
        /\ \A q \in (p+1)..Len(t) : t[q] # "@"
        /\ \E q \in (p+1)..Len(t) : t[q] = "."

\* C8: a contact with a non-blank email reaches the transmitter exactly
\* when the trimmed address has an "@" and a "." after the last "@"; any
\* other non-blank address is recorded as malformed and gets no call.
C8_MalformedNeverSent ==
    \A i \in 1..Reached :
        (EMAIL \in DOMAIN df[i] /\ df[i][EMAIL].kind = "str" /\ NonBlank(df[i][EMAIL].s)) =>
            LET t == Trimmed(df[i][EMAIL].s)
            IN  /\ (RowCalls(i) # {}) <=> WellFormed(t)
                /\ \A j \in RowCalls(i) : calls[j].msg.To \o calls[j].msg.Bcc = t
                /\ ~WellFormed(t) =>
                      /\ \E k \in RowEntries(i, {"skip_invalid"}) : log[k].to = t
                      /\ RowEntries(i, {"skip_empty", "sending"}) = {}

C8_Witness ==
    /\ d_pc = "done"
    /\ \E k \in LogEntries({"skip_invalid"}) : log[k].to = AddrDotBefore
    /\ \E k \in LogEntries({"skip_invalid"}) : log[k].to = AddrNoAt
    /\ \E j \in 1..Len(calls) : calls[j].msg.To = AddrBob

\* C9: every submission that passes the caller-side validation is answered
\* with the summary and the two itemized lists, one entry per contact, read
\* from the result the dispatcher returned.
C9_AlwaysSummary ==
    PassedCallerValidation =>
        /\ response.status = 200
        /\ d_pc = "done"
        /\ Len(response.successful_emails) + Len(response.failed_emails) = Len(e_df.rows)

\* the occurrences of lit in text from position i on, replaced left to right
RECURSIVE RefScan(_, _, _, _)
RefScan(text, lit, val, i) ==
    IF i > Len(text) THEN <<>>
    ELSE IF i + Len(lit) - 1 <= Len(text) /\ \A k \in 1..Len(lit) : text[i + k - 1] = lit[k]
         THEN val \o RefScan(text, lit, val, i + Len(lit))
         ELSE <<text[i]>> \o RefScan(text, lit, val, i + 1)

RefValue(record, name) ==
    IF name \in DOMAIN record /\ record[name].kind # "nan"
    THEN (IF record[name].kind = "str" THEN record[name].s ELSE str(record[name]))
    ELSE <<>>

\* the names from position k on, applied in order to the text in progress
RECURSIVE RefRender(_, _, _, _)
RefRender(text, record, names, k) ==
    IF k > Len(names) THEN text
    ELSE RefRender(RefScan(text, <<"{">> \o names[k] \o <<"}">>, RefValue(record, names[k]), 1),
                   record, names, k + 1)

HiAl9 ==
    <<"H", "i", " ", "A", "l", ",", " ", "y", "o", "u", "r", " ",
      "c", "o", "d", "e", " ", "i", "s", " ", "9">>
HiAlCode ==
    <<"H", "i", " ", "A", "l", ",", " ", "y", "o", "u", "r", " ",
      "c", "o", "d", "e", " ", "i", "s", " ", "{", "c", "o", "d", "e", "}">>
AlAndCode == (NAME :> StrCell(<<"A", "l">>)) @@ (CODE :> StrCell(<<"9">>))

\* C10: the rendered text is the reference result: the names taken in
\* order, every occurrence of "{name}" in the text in progress replaced by
\* the record's value, or by nothing when the name is absent or null; a
\* placeholder whose name is not listed stays as it is.
C10_RenderIsReference ==
    r_pc = "done" =>
        /\ r_out = RefRender(r_in.template, r_in.row_data, r_in.variables, 1)
        /\ (r_in = [template |-> HiTemplate, row_data |-> AlAndCode, variables |-> <<NAME, CODE>>])
              => r_out = HiAl9
        /\ (r_in = [template |-> HiTemplate, row_data |-> AlAndCode, variables |-> <<NAME>>])
              => r_out = HiAlCode
        /\ r_in.variables = <<>> => r_out = r_in.template

C10_Witness ==
    /\ r_pc = "done"
    /\ r_in = [template |-> HiTemplate, row_data |-> AlAndCode, variables |-> <<NAME, CODE>>]
    /\ r_out = HiAl9

\* lit occurs in text
Occurs(text, lit) ==
    \E i \in 1..(Len(text) - Len(lit) + 1) : \A k \in 1..Len(lit) : text[i + k - 1] = lit[k]

\* no "{" stands between a "{" and the "}" that closes it
NoNesting(t) ==
    \A i \in 1..Len(t) :
        t[i] = "{" =>
            \A j \in (i+1)..Len(t) : t[j] = "{" => \E m \in (i+1)..(j-1) : t[m] = "}"

\* a is b with some characters left out
RECURSIVE IsSubsequence(_, _)
IsSubsequence(a, b) ==
    IF a = <<>> THEN TRUE
    ELSE IF b = <<>> THEN FALSE
    ELSE IF Head(a) = Head(b) THEN IsSubsequence(Tail(a), Tail(b))
    ELSE IsSubsequence(a, Tail(b))

Braced(name) == <<"{">> \o name \o <<"}">>

EmptyRecordRendered == r_pc = "done" /\ DOMAIN r_in.row_data = {}

\* C11 as stated: rendering with the empty record leaves no "{name}" of a
\* listed name in the result, whatever the order and the nesting of braces.
C11_NoPlaceholderLeft ==
    EmptyRecordRendered =>
        \A k \in 1..Len(r_in.variables) : ~Occurs(r_out, Braced(r_in.variables[k]))

\* C11 amended: rendering with the empty record only deletes text, leaves a
\* template without listed placeholders as it is, and leaves no "{name}" of
\* a listed name in the result when the braces of the template do not nest.
C11_EmptyRecordDeletes ==
    EmptyRecordRendered =>
        /\ IsSubsequence(r_out, r_in.template)
        /\ (\A k \in 1..Len(r_in.variables) : ~Occurs(r_in.template, Braced(r_in.variables[k])))
              => r_out = r_in.template
        /\ NoNesting(r_in.template) =>
              \A k \in 1..Len(r_in.variables) : ~Occurs(r_out, Braced(r_in.variables[k]))

HiNobody ==
    <<"H", "i", " ", ",", " ", "y", "o", "u", "r", " ", "c", "o", "d", "e", " ", "i", "s", " ">>

C11_Witness ==
    /\ EmptyRecordRendered
    /\ r_in.template = HiTemplate
    /\ r_in.variables = <<CODE, NAME>>
    /\ r_out = HiNobody

NameIsCode == (NAME :> StrCell(Braced(CODE))) @@ (CODE :> StrCell(<<"9">>))
Hi9 ==
    <<"H", "i", " ", "9", ",", " ", "y", "o", "u", "r", " ",
      "c", "o", "d", "e", " ", "i", "s", " ", "9">>
HiCode9 ==
    <<"H", "i", " ", "{", "c", "o", "d", "e", "}", ",", " ", "y", "o", "u", "r", " ",
      "c", "o", "d", "e", " ", "i", "s", " ", "9">>

\* C12: when the value of name is the text "{code}", that text is replaced
\* in its turn when code comes after name in the list and is left as it is
\* when code comes before name.
C12_OrderDependent ==
    (r_pc = "done" /\ r_in.row_data = NameIsCode /\ Occurs(r_in.template, Braced(NAME))) =>
        /\ r_in.variables = <<NAME, CODE>> => ~Occurs(r_out, Braced(CODE))
        /\ r_in.variables = <<CODE, NAME>> => Occurs(r_out, Braced(CODE))
        /\ (r_in.template = HiTemplate /\ r_in.variables = <<NAME, CODE>>) => r_out = Hi9
        /\ (r_in.template = HiTemplate /\ r_in.variables = <<CODE, NAME>>) => r_out = HiCode9

C12_Witness ==
    /\ r_pc = "done"
    /\ r_in = [template |-> HiTemplate, row_data |-> NameIsCode, variables |-> <<CODE, NAME>>]
    /\ r_out = HiCode9

\* every mail session of the calls recorded in cs ended without an exception
AllSucceeding(cs) == \A k \in 1..Len(cs) : cs[k].session = "ok"

\* a second call on the same arguments has returned, and the transmitter
\* succeeded every time it was called in both
RanTwiceAllSucceeding ==
    /\ runs >= 2
    /\ d_pc = "done"
    /\ AllSucceeding(calls)
    /\ AllSucceeding(prev_calls)

\* C13: the dispatcher keeps nothing from one call to the next: called twice
\* on the same table, templates and account with a transmitter that always
\* succeeds, it returns the same result and sends the same messages for the
\* same rows both times
C13_NoHiddenState ==
    RanTwiceAllSucceeding =>
        /\ result = prev_result
        /\ result.successful_sends = Len(calls)
        /\ calls = prev_calls

C13_Witness ==
    /\ RanTwiceAllSucceeding
    /\ Len(df) >= 2
    /\ result.successful_sends >= 1
    /\ result.failed_sends >= 1

\* the rows after which the dispatcher has slept, in the order of the log
Sleeps == { k \in 1..Len(log) : log[k].ev = "sleeping" }

\* C14: the pacing sleep happens only between contacts: never before the
\* first contact has been processed and never after the last contact of the
\* table
C14_SleepOnlyBetween ==
    /\ \A k \in Sleeps :
          /\ log[k].row < Len(df)
          /\ \E j \in 1..(k - 1) : log[j].row = 1
    /\ d_pc = "sleep" => idx < Len(df)

\* the log entries that end a call of the transmitter
SessionEndEvents == {"sent"} \cup TransmitFailureEvents

\* the transmissions begun and not yet completed or failed
InFlight == Cardinality(LogEntries({"sending"})) - Cardinality(LogEntries(SessionEndEvents))

\* C15: at most one transmission is in flight at any time: the dispatcher is
\* inside the transmitter exactly while one is, every call but the last has
\* returned, and between the starts of two transmissions the earlier one
\* has completed or failed
C15_OneInFlight ==
    /\ InFlight \in {0, 1}
    /\ InFlight = 1 <=> d_pc = "send"
    /\ \A j \in 1..Len(calls) : calls[j].session = "pending" => (j = Len(calls) /\ d_pc = "send")
    /\ \A j, k \in LogEntries({"sending"}) :
          j < k => \E e \in LogEntries(SessionEndEvents) :
                       j < e /\ e < k /\ log[e].row = log[j].row

C15_Witness ==
    /\ d_pc = "send"
    /\ InFlight = 1
    /\ Len(calls) >= 2
    /\ RowEntries(calls[1].row, TransmitFailureEvents) # {}

\* the calls of the transmitter that have returned
Returned == { j \in 1..Len(calls) : calls[j].session # "pending" }

\* the reason the log gives for the failure of row i
ReasonLogged(i) == { log[k].ev : k \in RowEntries(i, FailureEvents) }

\* C16: what the transmitter hands to the dispatcher tells an authentication
\* failure, a connection failure and any other failure apart, and the result
\* of the campaign names every failed row together with its reason
C16_FailureKindsReported ==
    /\ \A j, k \in Returned :
          calls[j].session # calls[k].session => calls[j].returned # calls[k].returned
    /\ (d_pc = "done" /\ result.failed_sends > 0) =>
          /\ "failed_emails" \in DOMAIN result
          /\ \A i \in 1..Len(df) :
                RowFailed(i) => \E f \in 1..Len(result["failed_emails"]) :
                                    /\ result["failed_emails"][f].row = i
                                    /\ result["failed_emails"][f].reason \in ReasonLogged(i)

\* the mail sessions that ended with an exception
FailedSessions == {"auth", "connect", "other"}

\* C17: the transmitter never raises for a problem of one recipient: no
\* exception of the mail session leaves send_single_email, every call whose
\* session failed returned False and was logged with its kind of failure, and
\* a call returned True only when its session completed
C17_TransmitterNeverRaises ==
    /\ d_pc # "raised"
    /\ \A j \in Returned :
          /\ calls[j].session \in FailedSessions => ~calls[j].returned
          /\ calls[j].returned <=> calls[j].session = "ok"
          /\ RowEntries(calls[j].row, {session_event(calls[j].session)}) # {}

C17_Witness ==
    /\ d_pc = "done"
    /\ { calls[j].session : j \in Returned } = FailedSessions
    /\ \A j \in Returned : ~calls[j].returned
    /\ result.failed_sends = 3

\* the dispatcher was called with an attachment that exists and cannot be read
UnreadableAttachment == d_pc # "idle" /\ options.media = "unreadable"

\* C18: a failure of the attachment is not fatal: with an attachment that
\* exists and cannot be read the error is logged, the transmitter goes on to
\* the mail session with a message that has no attachment, and the session
\* alone decides what the call returns
C18_AttachmentNonFatal ==
    UnreadableAttachment =>
        /\ d_pc # "raised"
        /\ \A k \in LogEntries({"sending"}) :
              /\ k < Len(log)
              /\ log[k + 1].ev = "attach_error"
              /\ RowCalls(log[k].row) # {}
        /\ \A j \in 1..Len(calls) : ~calls[j].msg.attached
        /\ \A j \in Returned : calls[j].returned <=> calls[j].session = "ok"

C18_Witness ==
    /\ UnreadableAttachment
    /\ d_pc = "done"
    /\ \E j, k \in Returned : calls[j].returned /\ ~calls[k].returned
    /\ \A j \in Returned : RowEntries(calls[j].row, {"attach_error"}) # {}

\* a request has been received
Submitted == e_req # NoRequest

\* the variable list of the request names something that is not a column of
\* the uploaded table
MissingVariable ==
    /\ Submitted
    /\ e_req.variables.ok
    /\ e_req.csv_file.ok
    /\ \E i \in 1..Len(e_req.variables.value) :
          e_req.variables.value[i] \notin e_req.csv_file.columns

\* C19: a submission whose variable list names something that is not a column
\* of the contact table is answered with a validation error (the 400 of an
\* earlier check of the form, or else 422 "Variables not found in CSV"), the
\* dispatcher is never entered and the transmitter never called for it
C19_MissingVariableRejected ==
    MissingVariable =>
        /\ d_pc = "idle"
        /\ calls = <<>>
        /\ e_pc \in {"read_csv", "responded"}
        /\ e_pc = "responded" =>
              /\ ~temp_dir
              /\ IF e_vars = <<>>
                 THEN response.status = 400
                 ELSE response = ErrorResponse(422, "Variables not found in CSV")

C19_Witness ==
    /\ MissingVariable
    /\ e_pc = "responded"
    /\ response.status = 422
    /\ EMAIL \in e_df.columns
    /\ Len(e_df.rows) >= 1
    /\ e_vars = <<NAME, CODE>>

\* entry config of a request has no value, or an empty one, for field f
Lacks(config, f) == IF f \in DOMAIN config THEN ~field_filled(config, f) ELSE TRUE

\* the sender account entries of the request, when the list could be read
SubmittedConfigs == IF e_req.email_configs.ok THEN e_req.email_configs.value ELSE <<>>

\* some entry of the request lacks one of the four fields
IncompleteEntry ==
    /\ Submitted
    /\ \E i \in 1..Len(SubmittedConfigs), f \in ConfigFields : Lacks(SubmittedConfigs[i], f)

\* some entry lacks its address, password or server, or carries an empty port
UnusableEntry ==
    /\ Submitted
    /\ \E i \in 1..Len(SubmittedConfigs) :
          \/ \E f \in ConfigFields \ {"smtpPort"} : Lacks(SubmittedConfigs[i], f)
          \/ "smtpPort" \in DOMAIN SubmittedConfigs[i] /\ Lacks(SubmittedConfigs[i], "smtpPort")

\* the request was answered 400 without a temporary directory, a call of the
\* dispatcher or a call of the transmitter
RejectedBeforeDispatch ==
    /\ e_pc = "responded"
    /\ response.status = 400
    /\ ~temp_dir
    /\ e_df = BadTable
    /\ d_pc = "idle"
    /\ calls = <<>>

\* C20 as stated: a submission with an entry that lacks any of the four
\* fields, omitted or empty, is rejected by the validation of the form
C20_IncompleteAccountRejected == IncompleteEntry => RejectedBeforeDispatch

\* C20: a submission with an entry whose senderEmail, senderPassword or
\* smtpServer is omitted or empty, or whose smtpPort is given and empty, is
\* rejected with 400 before any dispatch; an omitted smtpPort is filled in
\* as 587 and is no ground for rejection; in neither case is the
\* transmitter called
C20_UnusableAccountRejected ==
    /\ UnusableEntry => RejectedBeforeDispatch
    /\ (IncompleteEntry /\ ~UnusableEntry /\ e_req.variables.ok /\ e_req.csv_name_ok) =>
          /\ ~RejectedBeforeDispatch
          /\ Len(e_configs) = Len(SubmittedConfigs)
          /\ \A i \in 1..Len(e_configs) :
                e_configs[i].smtpPort = IF "smtpPort" \in DOMAIN SubmittedConfigs[i]
                                        THEN SubmittedConfigs[i].smtpPort ELSE 587
    /\ IncompleteEntry => (d_pc = "idle" /\ calls = <<>>)

C20_Witness ==
    /\ RejectedBeforeDispatch
    /\ e_req.variables.ok
    /\ e_req.csv_name_ok
    /\ SubmittedConfigs = <<ConfigNoPort, ConfigEmptyPassword>>

\* the activation server answered with a status below 400, success and 'active'
ServerSaysActive(answer) ==
    /\ answer.kind = "http"
    /\ answer.status < 400
    /\ answer.body = "object"
    /\ answer.success = "true"
    /\ answer.activationStatus = "active"

\* /check-activation has just answered, with isActivated true or false
Checked == a_op = "check"
IsActivated == Checked /\ a_out.ok

\* C21: /check-activation answers isActivated = true only when, in that call,
\* both identifiers were read without error, the server answered with a status
\* below 400, success and 'active', and the key stored in the activation file
\* is the key generated from the identifiers
C21_ActivatedOnlyWhenAllHold ==
    IsActivated =>
        /\ ~reports_error(a_in.p)
        /\ ~reports_error(a_in.m)
        /\ ServerSaysActive(a_in.answer)
        /\ file_before.exists
        /\ stored_key_of(file_before) = generate_activation_key(a_in.p, a_in.m)

C21_Witness ==
    /\ IsActivated
    /\ file_before.content # stored_key_of(file_before)
    /\ a_last.op = "check"

\* a /check-activation that follows a successful /activate for the
\* identifiers the machine reports, with the server answering active
RoundTrip ==
    /\ Checked
    /\ a_last.op = "activate"
    /\ a_last.ok
    /\ a_in.p = a_last.p
    /\ a_in.m = a_last.m
    /\ ServerSaysActive(a_in.answer)

C23_NotActivatedRemovesFile ==
    (Checked /\ ~a_out.ok /\ a_in.remove_ok) => ~act_file.exists

C23_Witness ==
    /\ Checked
    /\ a_out.path = "timeout"
    /\ file_before.exists
    /\ a_in.remove_ok
    /\ ~act_file.exists

\* /activate has just answered
Activated == a_op = "activate"

\* the pre-check answered active and the key sent, trimmed and in upper case,
\* is the key generated from the identifiers sent
MayWrite ==
    /\ ServerSaysActive(a_in.answer)
    /\ upper(strip(a_in.key)) = generate_activation_key(a_in.p, a_in.m)

\* C24: /activate writes the activation file only when the pre-check
\* answered success and 'active' and the key sent, trimmed and upper-cased,
\* is the generated key; in every other outcome it answers an error and the
\* file is as it was
C24_WritesOnlyWhenVerified ==
    Activated =>
        /\ a_out.path \in {"written", "write_failed"} <=> MayWrite
        /\ a_out.ok <=> a_out.path = "written"
        /\ a_out.path = "written" =>
              act_file = FileWith(generate_activation_key(a_in.p, a_in.m))
        /\ ~MayWrite => (~a_out.ok /\ a_out.status >= 400 /\ act_file = file_before)

C24_Witness ==
    /\ Activated
    /\ a_out.path = "written"
    /\ a_in.key # generate_activation_key(a_in.p, a_in.m)
    /\ act_file # file_before

\* C28: /logout is idempotent and revokes the activation: after a /logout
\* that answered success the file does not exist, a /logout that follows it
\* answers success too, and until /activate succeeds again every
\* /check-activation answers isActivated = false, whatever the server says
C28_LogoutRevokes ==
    /\ (a_op = "logout" /\ a_out.ok) => ~act_file.exists
    /\ (a_op = "logout" /\ a_last.op = "logout" /\ a_last.ok) => a_out.ok
    /\ (Checked /\ logged_out) => ~a_out.ok

C28_Witness ==
    /\ Checked
    /\ logged_out
    /\ ServerSaysActive(a_in.answer)
    /\ a_last.op = "logout"
    /\ a_last.ok
    /\ ~a_out.ok

\* the submission passed every check of /send-emails: form fields, table,
\* variables and email column
ValidSubmission ==
    /\ Submitted
    /\ request_rejection(e_req.variables, e_req.email_configs, e_req.csv_name_ok) = ""
    /\ table_rejection(e_req.csv_file, e_req.variables.value) = ""

\* the campaign of a submission is running in the dispatcher
CampaignRunning == caller = "endpoint" /\ d_pc \in {"loop", "send", "sleep"}

\* the rows of the submitted table whose address the dispatcher would accept
SubmittedValidRows ==
    { i \in 1..Len(e_req.csv_file.rows) :
          LET address == strip(str(e_req.csv_file.rows[i][EMAIL]))
          IN  ~is_empty_address(address) /\ ~is_invalid_address(address) }

\* C25: the campaign of a submission runs to completion without
\* interleaving: once /send-emails has answered a valid submission, the
\* transmitter has been called for every row with a usable address and the
\* answer is the summary; and while the campaign runs no other request is
\* handled
C25_CampaignRunsAlone ==
    /\ [](ValidSubmission /\ e_pc = "responded" =>
             /\ response.status = 200
             /\ \A i \in SubmittedValidRows : RowCalls(i) # {})
    /\ [][CampaignRunning => UNCHANGED <<served, shutdown_event, pvars, e_req>>]_vars

\* a request has been answered and its temporary directory is gone
SendEmailsCleaned == e_pc = "responded" => ~temp_dir
PreviewCleaned == p_pc = "responded" => ~p_temp_dir

C26_ShutdownReachesExit ==
    /\ [](wait_outcome = "set" => (shutdown_event /\ elapsed = 0))
    /\ [](wait_outcome = "timeout" => (~shutdown_event /\ elapsed = SHUTDOWN_GRACE_PERIOD))
    /\ [](l_pc = "waiting" /\ shutdown_event => elapsed = 0)
    /\ (l_pc = "waiting") ~> (l_pc = "exited")

C26_Witness ==
    /\ l_pc = "exited"
    /\ wait_outcome = "timeout"
    /\ elapsed = SHUTDOWN_GRACE_PERIOD
    /\ served > 0

====
